---- MODULE Spec2Model ----
(***************************************************************************)
(* The game runtime that export_game_html embeds in the standalone page    *)
(* (commands.rs, generate_standalone_html): class GameRuntime, the play    *)
(* and reset button handlers, the keyboard listeners and the frame loop.   *)
(*                                                                         *)
(* The page is single-threaded.  One physics step (GameRuntime.loop) is    *)
(* laid out as a sequence of phases, held in pc, because Matter's          *)
(* Engine.update calls the collisionStart / collisionEnd handlers back     *)
(* from inside the step; while pc # "idle" no other handler can run.       *)
(*                                                                         *)
(* Optional JSON values are sequences: << >> is an absent value, <<v>> a   *)
(* present one.  Body velocities are kept in hundredths (VelScale), so     *)
(* that the factor 0.01 of GameRuntime.update stays exact in integers.     *)
(***************************************************************************)
EXTENDS Integers, Sequences, FiniteSets, TLC

(***************************************************************************)
(* Bounds of the model.                                                    *)
(***************************************************************************)
\* the largest number of clock advances in one behaviour
MaxTicks == 2
\* the largest number of frame callbacks pending at the host
MaxPending == 2
\* the largest number of loadEntities calls (initial load and resets)
MaxLoads == 2
\* the largest number of pairs in one collision event
MaxPairs == 1
\* the largest coordinate the physics engine moves a body to
MaxCoord == 2
\* longest path, in components, the file commands are called with
MaxDepth == 2
\* watchers created in one run of the application
MaxWatchers == 2
\* events waiting in the channel of one watcher
MaxQueue == 2
\* HTTP requests sent to the API in one run of the application
MaxRequests == 4
\* content blocks in one API response
MaxBlocks == 2

(***************************************************************************)
(* Program constants.                                                      *)
(***************************************************************************)
\* milliseconds by which performance.now() advances in one clock advance
TickMs == 60
\* Math.min(..., 0.1): the clamp of the step, in milliseconds
MaxDtMs == 100
\* body velocities are stored multiplied by VelScale
VelScale == 100
\* es.components.sprite?.width || 32
DefaultSize == 32
\* es.components.input?.moveSpeed || 200
DefaultMoveSpeed == 200
\* es.components.input?.jumpForce || -400
DefaultJumpForce == -400
\* es.components.sprite?.tint || 0x808080
DefaultTint == 8421504

None == << >>
Some(v) == << v >>

Min(a, b) == IF a < b THEN a ELSE b

(***************************************************************************)
(* JavaScript's  v || d  on an optional number: an absent value and the    *)
(* falsy number 0 both give the default.                                   *)
(***************************************************************************)
\* an optional number read without  || d
OrElseAbsentIsZero(opt, d) == IF opt = None THEN 0 ELSE opt[1]

OrElse(opt, d) == IF opt = None \/ opt[1] = 0 THEN d ELSE opt[1]

(***************************************************************************)
(* JavaScript's  c?.f  on an optional component: the field of a present    *)
(* component, absent otherwise.                                            *)
(***************************************************************************)
Field(comp, f) == IF comp = None THEN None ELSE comp[1][f]

(***************************************************************************)
(* Number.toString(16).padStart(6, '0') as a sequence of digits.           *)
(***************************************************************************)
HexDigit(d) == <<"0","1","2","3","4","5","6","7","8","9","a","b","c","d","e","f">>[d + 1]

RECURSIVE ToString16(_)
ToString16(n) == IF n < 16 THEN << HexDigit(n) >>
                 ELSE Append(ToString16(n \div 16), HexDigit(n % 16))

RECURSIVE PadStart(_, _, _)
PadStart(s, len, ch) == IF Len(s) >= len THEN s ELSE PadStart(<<ch>> \o s, len, ch)

Color(tint) == <<"#">> \o PadStart(ToString16(OrElse(tint, DefaultTint)), 6, "0")

(***************************************************************************)
(* GameSpecs: the scenes the runtime is constructed with.                  *)
(***************************************************************************)
NoComponents == [transform |-> None, sprite |-> None, velocity |-> None,
                 collider |-> None, input |-> None]

Transform(x, y, r) == Some([x |-> x, y |-> y, rotation |-> r])
Sprite(w, h, t) == Some([width |-> w, height |-> h, tint |-> t])
Collider(w, h) == Some([width |-> w, height |-> h])
Input(ms, jf) == Some([moveSpeed |-> ms, jumpForce |-> jf])
Velocity == Some([vx |-> 0, vy |-> 0])

\* a player with explicit input values, standing at (1, 1)
PlayerSpec ==
  [name |-> "player", tags |-> None,
   components |-> [NoComponents EXCEPT
      !.transform = Transform(Some(1), Some(1), None),
      !.sprite = Sprite(Some(16), None, Some(255)),
      !.collider = Collider(None, Some(8)),
      !.input = Input(Some(300), Some(-500))]]

\* a player that leaves the optional input, sprite and collider fields out
BarePlayerSpec ==
  [name |-> "hero", tags |-> Some({"player"}),
   components |-> [NoComponents EXCEPT
      !.transform = Transform(Some(2), Some(1), Some(1)),
      !.collider = Collider(None, None),
      !.input = Input(None, None)]]

\* a static floor, loaded rotated
GroundSpec ==
  [name |-> "floor", tags |-> Some({"ground"}),
   components |-> [NoComponents EXCEPT
      !.transform = Transform(Some(1), Some(2), Some(1)),
      !.collider = Collider(Some(64), Some(4))]]

\* a second static support
PlatformSpec ==
  [name |-> "ledge", tags |-> Some({"platform", "solid"}),
   components |-> [NoComponents EXCEPT
      !.transform = Transform(Some(2), Some(1), None),
      !.sprite = Sprite(Some(0), Some(0), Some(0)),
      !.collider = Collider(None, None)]]

\* a dynamic body that is no support
CrateSpec ==
  [name |-> "crate", tags |-> Some({"box"}),
   components |-> [NoComponents EXCEPT
      !.transform = Transform(Some(0), Some(1), Some(2)),
      !.velocity = Velocity,
      !.collider = Collider(Some(8), Some(8))]]

\* an input-driven entity without a collider, with explicit zeros
GhostSpec ==
  [name |-> "ghost", tags |-> None,
   components |-> [NoComponents EXCEPT
      !.transform = Transform(Some(0), None, Some(0)),
      !.input = Input(Some(0), Some(0))]]

\* an entity without any component
DecorSpec ==
  [name |-> "decor", tags |-> Some({"ground"}), components |-> NoComponents]

\* an entity object without its components bag
MalformedSpec == [name |-> "broken", tags |-> None, components |-> None]

Scene(g, es) == [config |-> [gravity |-> [x |-> 0, y |-> g]], entities |-> es]

GameSpecs ==
  { Scene(1, << PlayerSpec, GhostSpec, DecorSpec >>),
    Scene(1, << GroundSpec, PlatformSpec, BarePlayerSpec >>),
    Scene(0, << CrateSpec, DecorSpec, GroundSpec >>),
    Scene(0, << PlayerSpec, BarePlayerSpec >>),
    Scene(1, << GroundSpec, GroundSpec >>),
    Scene(1, << GroundSpec, MalformedSpec, PlayerSpec >>) }

\* the key codes the host delivers
Codes == {"ArrowLeft", "KeyD", "Space"}

VARIABLES
  spec,          \* this.spec: the GameSpec (immutable after construction)
  entities,      \* this.entities: the RuntimeEntity list
  bodies,        \* this.bodies: Map from entity name to body (index in world)
  world,         \* this.engine.world: the bodies added to the composite
  contacts,      \* the engine's active pairs, as sets of two labels
  handlers,      \* number of collisionStart (= collisionEnd) subscriptions
  isPlaying,     \* this.isPlaying
  keys,          \* this.keys: the codes whose map entry is true
  lastTime,      \* this.lastTime
  now,           \* performance.now()
  pending,       \* requestAnimationFrame callbacks not yet run
  pageIsPlaying, \* the page's own  let isPlaying
  btnLabel,      \* play-btn textContent
  pc,            \* phase of the step in progress, "idle" between handlers
  caller,        \* who called loop(): "start" or "frame"
  dtMs,          \* argument of Matter.Engine.update in the step in progress
  ev,            \* pairs of the collision event last delivered in this step
  constructed,   \* new GameRuntime(canvas, gameSpec) returned without an exception
  canvas         \* what render() drew last: one rectangle per entity

\* the state of the exported page
pageVars == << spec, entities, bodies, world, contacts, handlers, isPlaying, keys,
               lastTime, now, pending, pageIsPlaying, btnLabel, pc, caller, dtMs, ev,
               constructed, canvas >>

\* The desktop application's command handlers run in another process than
\* the exported page; their state is the rest of the variables.
VARIABLES
  fs,            \* the file system: the kind, "dir" or "file", of every existing path
  fsResult,      \* the file command that returned last, its path and its result
  watcher,       \* FileWatcherState.watcher: None or Some(id of the watcher)
  watchedPath,   \* FileWatcherState.watched_path
  instances,     \* per watcher id: its backend, its channel and its thread
  emitted,       \* per watcher id: flips with every 'file-changed' it emits
  apiKey,        \* AIClient.api_key
  requests,      \* number of HTTP requests sent to the API
  aiResult       \* what ai_send_message returned last

fsVars == << fs, fsResult >>
watcherVars == << watcher, watchedPath, instances, emitted >>
aiVars == << apiKey, requests, aiResult >>
backendVars == << fsVars, watcherVars, aiVars >>

vars == << pageVars, backendVars >>

(***************************************************************************)
(* loadEntities: the Scene Interpreter.                                    *)
(***************************************************************************)
EmptyMap == [n \in {} |-> 0]

MapSet(m, k, v) == [n \in (DOMAIN m) \cup {k} |-> IF n = k THEN v ELSE m[n]]

\* const e = { name: ..., isGrounded: false }
MakeEntity(es) ==
  LET c == es.components IN
  [name |-> es.name,
   x |-> OrElse(Field(c.transform, "x"), 0),
   y |-> OrElse(Field(c.transform, "y"), 0),
   rotation |-> OrElse(Field(c.transform, "rotation"), 0),
   width |-> OrElse(Field(c.sprite, "width"), DefaultSize),
   height |-> OrElse(Field(c.sprite, "height"), DefaultSize),
   color |-> Color(Field(c.sprite, "tint")),
   hasInput |-> (c.input # None),
   moveSpeed |-> OrElse(Field(c.input, "moveSpeed"), DefaultMoveSpeed),
   jumpForce |-> OrElse(Field(c.input, "jumpForce"), DefaultJumpForce),
   tags |-> IF es.tags = None THEN {} ELSE es.tags[1],
   isGrounded |-> FALSE]

\* an isStatic that looks at the velocity component only
IsStaticNoVelocity(es) == es.components.velocity = None

\* const isStatic = !es.components.velocity && !es.components.input
IsStatic(es) == es.components.velocity = None /\ es.components.input = None

\* Matter.Bodies.rectangle(e.x, e.y, w, h, { isStatic, label }): a body at
\* rest at (e.x, e.y); no angle is passed, so the body's angle is 0
MakeBody(es, e) ==
  [label |-> es.name, x |-> e.x, y |-> e.y, angle |-> 0, vx |-> 0, vy |-> 0,
   isStatic |-> IsStatic(es),
   width |-> OrElse(Field(es.components.collider, "width"), e.width),
   height |-> OrElse(Field(es.components.collider, "height"), e.height)]

\* loadEntities without  this.entities = []
ClearedRuntimeKeepsEntities(rt) ==
  [entities |-> rt.entities, bodies |-> EmptyMap, world |-> << >>, threw |-> FALSE]

\* loadEntities without  Matter.Composite.clear(this.engine.world)
ClearedRuntimeKeepsWorld(rt) ==
  [entities |-> << >>, bodies |-> EmptyMap, world |-> rt.world, threw |-> FALSE]

\* this.entities = []; this.bodies.clear(); Matter.Composite.clear(world)
ClearedRuntime(rt) ==
  [entities |-> << >>, bodies |-> EmptyMap, world |-> << >>, threw |-> FALSE]

\* one iteration of  for (const es of this.spec.entities); the first read of
\* es.components.transform throws a TypeError when es has no components
LoadOne(es, rt) ==
  IF es.components = None THEN [rt EXCEPT !.threw = TRUE]
  ELSE LET e == MakeEntity(es) IN
       IF es.components.collider # None
       THEN [entities |-> Append(rt.entities, e),
             bodies |-> MapSet(rt.bodies, es.name, Len(rt.world) + 1),
             world |-> Append(rt.world, MakeBody(es, e)),
             threw |-> FALSE]
       ELSE [rt EXCEPT !.entities = Append(rt.entities, e)]

\* the loop stops at the iteration that throws
RECURSIVE LoadFrom(_, _, _)
LoadFrom(ess, i, rt) ==
  IF i > Len(ess) \/ rt.threw THEN rt ELSE LoadFrom(ess, i + 1, LoadOne(ess[i], rt))

\* loadEntities() on a runtime whose entities, bodies and world are rt
LoadEntities(gs, rt) == LoadFrom(gs.entities, 1, ClearedRuntime(rt))

(***************************************************************************)
(* The collisionStart / collisionEnd handlers: the grounding state.        *)
(***************************************************************************)
\* this.entities.find(e => e.name === label): index of the first match, or 0
Find(ents, label) ==
  LET hits == { i \in 1..Len(ents) : ents[i].name = label } IN
  IF hits = {} THEN 0 ELSE CHOOSE i \in hits : \A j \in hits : i <= j

\* a handler that takes every entity for a support
IsSupportAny(ents, i) == i # 0

\* b?.tags?.includes('ground') || b?.tags?.includes('platform')
IsSupport(ents, i) ==
  i # 0 /\ ("ground" \in ents[i].tags \/ "platform" \in ents[i].tags)

\* a handler that does not look at hasInput
HasInputAny(ents, i) == i # 0

\* a?.hasInput
HasInput(ents, i) == i # 0 /\ ents[i].hasInput

\* if (a?.hasInput && (b is a support)) a.isGrounded = value
SetGroundedIf(ents, a, b, value) ==
  IF HasInput(ents, a) /\ IsSupport(ents, b)
  THEN [ents EXCEPT ![a].isGrounded = value]
  ELSE ents

\* a handler that only looks at the pair's first member
HandlePairFirstOnly(ents, p, value) ==
  SetGroundedIf(ents, Find(ents, p[1]), Find(ents, p[2]), value)

\* the body of  for (const p of ev.pairs)  in either handler
HandlePair(ents, p, value) ==
  LET a == Find(ents, p[1])
      b == Find(ents, p[2])
      afterA == SetGroundedIf(ents, a, b, value)
  IN  SetGroundedIf(afterA, b, a, value)

RECURSIVE HandlePairs(_, _, _, _)
HandlePairs(ents, pairs, i, value) ==
  IF i > Len(pairs) THEN ents
  ELSE HandlePairs(HandlePair(ents, pairs[i], value), pairs, i + 1, value)

\* the collisionStart handler on one event
OnCollisionStart(ents, pairs) == HandlePairs(ents, pairs, 1, TRUE)

\* an end handler that keeps the entity grounded while another contact of
\* the world is still active
OnCollisionEndCounted(ents, pairs) ==
  IF contacts \ { {pairs[i][1], pairs[i][2]} : i \in 1..Len(pairs) } # {}
  THEN ents
  ELSE HandlePairs(ents, pairs, 1, FALSE)

\* the collisionEnd handler on one event
OnCollisionEnd(ents, pairs) == HandlePairs(ents, pairs, 1, FALSE)

\* Matter.Events.trigger: every one of the n subscribed handlers runs
RECURSIVE Trigger(_, _, _, _)
Trigger(n, ents, pairs, begin) ==
  IF n = 0 THEN ents
  ELSE Trigger(n - 1,
               IF begin THEN OnCollisionStart(ents, pairs) ELSE OnCollisionEnd(ents, pairs),
               pairs, begin)

(***************************************************************************)
(* update(dt), first loop: input to velocities.                            *)
(***************************************************************************)
MoveLeft(ks) == "ArrowLeft" \in ks \/ "KeyA" \in ks
MoveRight(ks) == "ArrowRight" \in ks \/ "KeyD" \in ks
Jump(ks) == "Space" \in ks \/ "ArrowUp" \in ks \/ "KeyW" \in ks

\* the two tests in the other order: moveLeft wins when both are down
InputVxLeftWins(e, ks) ==
  LET vx0 == 0
      vx1 == IF MoveRight(ks) THEN e.moveSpeed ELSE vx0
  IN  IF MoveLeft(ks) THEN 0 - e.moveSpeed ELSE vx1

\* let vx = 0; if (left) vx = -e.moveSpeed; if (right) vx = e.moveSpeed
InputVx(e, ks) ==
  LET vx0 == 0
      vx1 == IF MoveLeft(ks) THEN 0 - e.moveSpeed ELSE vx0
  IN  IF MoveRight(ks) THEN e.moveSpeed ELSE vx1

\* the number v * 0.01 as a stored velocity
Scaled(v) == (v * VelScale) \div 100

\* a jump that does not look at isGrounded
JumpAppliesAirborne(e, ks) == Jump(ks)

\* if (jump && e.isGrounded)
JumpApplies(e, ks) == Jump(ks) /\ e.isGrounded

\* a first setVelocity that passes  y: 0
InputBodyResetsVy(b, e, ks) ==
  LET moved == [b EXCEPT !.vx = Scaled(InputVx(e, ks)), !.vy = 0] IN
  IF JumpApplies(e, ks) THEN [moved EXCEPT !.vy = Scaled(e.jumpForce)] ELSE moved

\* Matter.Body.setVelocity(body, { x: vx * 0.01, y: body.velocity.y }) and
\* the jump branch, on the body of entity e
InputBody(b, e, ks) ==
  LET moved == [b EXCEPT !.vx = Scaled(InputVx(e, ks))] IN
  IF JumpApplies(e, ks) THEN [moved EXCEPT !.vy = Scaled(e.jumpForce)] ELSE moved

\* a jump branch without  e.isGrounded = false
InputEntityKeepsGrounded(e, ks) == e

\* e.isGrounded = false  in the jump branch
InputEntity(e, ks) == IF JumpApplies(e, ks) THEN [e EXCEPT !.isGrounded = FALSE] ELSE e

\* an update whose first input-driven entity consumes the keys it reads
RECURSIVE ApplyInputConsumesKeys(_, _, _, _, _)
ApplyInputConsumesKeys(i, ents, bs, w, ks) ==
  IF i > Len(ents) THEN [entities |-> ents, world |-> w]
  ELSE IF ~ents[i].hasInput \/ ents[i].name \notin DOMAIN bs
       THEN ApplyInputConsumesKeys(i + 1, ents, bs, w, ks)
       ELSE LET k == bs[ents[i].name] IN
            ApplyInputConsumesKeys(i + 1,
                       [ents EXCEPT ![i] = InputEntity(ents[i], ks)],
                       bs,
                       [w EXCEPT ![k] = InputBody(w[k], ents[i], ks)],
                       {})

\* for (const e of this.entities) { if (!e.hasInput) continue; ... }
RECURSIVE ApplyInput(_, _, _, _, _)
ApplyInput(i, ents, bs, w, ks) ==
  IF i > Len(ents) THEN [entities |-> ents, world |-> w]
  ELSE IF ~ents[i].hasInput \/ ents[i].name \notin DOMAIN bs
       THEN ApplyInput(i + 1, ents, bs, w, ks)
       ELSE LET k == bs[ents[i].name] IN
            ApplyInput(i + 1,
                       [ents EXCEPT ![i] = InputEntity(ents[i], ks)],
                       bs,
                       [w EXCEPT ![k] = InputBody(w[k], ents[i], ks)],
                       ks)

(***************************************************************************)
(* Matter.Engine.update: the engine is an external collaborator.  What it  *)
(* does to the dynamic bodies, and which pairs it reports, is a choice.    *)
(***************************************************************************)
EngineOutcomes == [move : BOOLEAN, vx : {"keep", "stop"}, vy : {"keep", "stop"}]

CanMove(b) == b.x < MaxCoord /\ b.y < MaxCoord /\ b.angle < MaxCoord

\* a static body is never moved by the engine
EngineBody(b, o) ==
  IF b.isStatic THEN b
  ELSE LET d == IF o.move /\ CanMove(b) THEN 1 ELSE 0 IN
       [b EXCEPT !.x = @ + d, !.y = @ + d, !.angle = @ + d,
                 !.vx = IF o.vx = "stop" THEN 0 ELSE @,
                 !.vy = IF o.vy = "stop" THEN 0 ELSE @]

EngineWorld(w, o) == [k \in 1..Len(w) |-> EngineBody(w[k], o)]

\* pairs the engine can report: two different bodies of the world, not both
\* static, reported in either order
PairsOf(w) ==
  LET idx == { q \in (1..Len(w)) \X (1..Len(w)) :
                 q[1] # q[2] /\ ~(w[q[1]].isStatic /\ w[q[2]].isStatic) }
  IN  { <<w[q[1]].label, w[q[2]].label>> : q \in idx }

RECURSIVE SeqsUpTo(_, _)
SeqsUpTo(S, n) ==
  IF n = 0 THEN { << >> }
  ELSE LET shorter == SeqsUpTo(S, n - 1) IN
       shorter \cup { Append(s, x) : s \in { t \in shorter : Len(t) = n - 1 }, x \in S }

\* the engine keeps one pair per two bodies: the list of an event names two
\* bodies at most once, in one order
PairLists(S) ==
  { s \in SeqsUpTo(S, MaxPairs) :
      \A i, j \in 1..Len(s) : {s[i][1], s[i][2]} = {s[j][1], s[j][2]} => i = j }

PairSet(pairs) == { {pairs[i][1], pairs[i][2]} : i \in 1..Len(pairs) }

\* a copy-back without  e.rotation = body.angle
SyncEntityNoAngle(e, bs, w) ==
  IF e.name \in DOMAIN bs
  THEN LET b == w[bs[e.name]] IN [e EXCEPT !.x = b.x, !.y = b.y]
  ELSE e

\* for (const e of this.entities) { const body = ...; if (body) { e.x = ... } }
SyncEntity(e, bs, w) ==
  IF e.name \in DOMAIN bs
  THEN LET b == w[bs[e.name]] IN [e EXCEPT !.x = b.x, !.y = b.y, !.rotation = b.angle]
  ELSE e

SyncEntities(ents, bs, w) == [i \in 1..Len(ents) |-> SyncEntity(ents[i], bs, w)]

(***************************************************************************)
(* Init: the state after  new GameRuntime(canvas, gameSpec)  and the       *)
(* page's  let isPlaying = false.                                          *)
(***************************************************************************)
\* no file command has run on an empty file system
FsInit ==
  /\ fs = [p \in {} |-> "dir"]
  /\ fsResult = [cmd |-> "none", path |-> << >>, ok |-> TRUE]

\* FileWatcherState::default(): no watcher, no path; no watcher was created
WatcherInit ==
  /\ watcher = None
  /\ watchedPath = None
  /\ instances = << >>
  /\ emitted = << >>

\* an AIClient without a key that has not been asked anything
AiQuiet ==
  /\ apiKey = None
  /\ requests = 0
  /\ aiResult = None

NewRuntime == [entities |-> << >>, bodies |-> EmptyMap, world |-> << >>, threw |-> FALSE]

\* a render that shifts every rectangle with the clock
DrawAnimated(ents) ==
  [i \in 1..Len(ents) |->
     [x |-> ents[i].x + now, y |-> ents[i].y, rotation |-> ents[i].rotation,
      width |-> ents[i].width, height |-> ents[i].height, color |-> ents[i].color]]

\* render(): after the background, one fillRect per entity, in list order,
\* translated to (e.x, e.y), rotated by e.rotation, filled with e.color
Draw(ents) ==
  [i \in 1..Len(ents) |->
     [x |-> ents[i].x, y |-> ents[i].y, rotation |-> ents[i].rotation,
      width |-> ents[i].width, height |-> ents[i].height, color |-> ents[i].color]]

Init ==
  /\ spec \in GameSpecs
  /\ LET rt == LoadEntities(spec, NewRuntime) IN
       /\ entities = rt.entities
       /\ bodies = rt.bodies
       /\ world = rt.world
       \* an exception in loadEntities leaves the constructor before Events.on
       /\ handlers = IF rt.threw THEN 0 ELSE 1
       /\ constructed = ~rt.threw
  /\ contacts = {}
  /\ isPlaying = FALSE
  /\ keys = {}
  /\ lastTime = 0
  /\ now = 0
  /\ pending = 0
  /\ pageIsPlaying = FALSE
  /\ btnLabel = "Play"
  /\ pc = "idle"
  /\ caller = "none"
  /\ dtMs = 0
  /\ ev = << >>
  \* the page's last statement, runtime.render(), is not reached when the
  \* constructor threw
  /\ canvas = IF constructed THEN Draw(entities) ELSE << >>
  /\ FsInit /\ WatcherInit /\ AiQuiet

(***************************************************************************)
(* The host's clock and keyboard.                                          *)
(***************************************************************************)
Tick ==
  /\ pc = "idle"
  /\ now < MaxTicks * TickMs
  /\ now' = now + TickMs
  /\ UNCHANGED << backendVars, spec, constructed, canvas, entities, bodies, world, contacts, handlers, isPlaying, keys,
                  lastTime, pending, pageIsPlaying, btnLabel, pc, caller, dtMs, ev >>

\* window keydown listener: this.keys.set(e.code, true)
KeyDown ==
  /\ pc = "idle"
  /\ \E c \in Codes : keys' = keys \cup {c}
  /\ UNCHANGED << backendVars, spec, constructed, canvas, entities, bodies, world, contacts, handlers, isPlaying,
                  lastTime, now, pending, pageIsPlaying, btnLabel, pc, caller, dtMs, ev >>

\* window keyup listener: this.keys.set(e.code, false)
KeyUp ==
  /\ pc = "idle"
  /\ \E c \in Codes : keys' = keys \ {c}
  /\ UNCHANGED << backendVars, spec, constructed, canvas, entities, bodies, world, contacts, handlers, isPlaying,
                  lastTime, now, pending, pageIsPlaying, btnLabel, pc, caller, dtMs, ev >>

(***************************************************************************)
(* loop(), up to the call of Matter.Engine.update.                         *)
(***************************************************************************)
\* a step without the clamp
StepMsUnclamped(t, last) == t - last

\* const dt = Math.min((now - this.lastTime) / 1000, 0.1), as the dt * 1000
\* that update passes to the engine
StepMs(t, last) == Min(t - last, MaxDtMs)

\* loop() past its guard, entered with this.lastTime = last
EnterLoop(who, last) ==
  LET r == ApplyInput(1, entities, bodies, world, keys) IN
  /\ dtMs' = StepMs(now, last)
  /\ lastTime' = now
  /\ entities' = r.entities
  /\ world' = r.world
  /\ caller' = who
  /\ ev' = << >>
  /\ pc' = "update"

\* start() without  this.lastTime = performance.now()
StartAnchorStale(t, last) == last

\* this.lastTime = performance.now()  in start(), entered at time t
StartAnchor(t, last) == t

\* start() { this.isPlaying = true; this.lastTime = ...; this.loop(); }

Start ==
  /\ isPlaying' = TRUE
  /\ EnterLoop("start", StartAnchor(now, lastTime))
  /\ UNCHANGED << backendVars, spec, constructed, canvas, bodies, contacts, handlers, keys, now, pending,
                  pageIsPlaying, btnLabel >>

\* pause() { this.isPlaying = false; }
Pause == isPlaying' = FALSE

\* the page's script reached its addEventListener calls: the constructor
\* before them did not throw
PageBound == constructed

\* play-btn click listener
PlayBtnClick ==
  /\ pc = "idle"
  /\ PageBound
  /\ IF pageIsPlaying
     THEN /\ Pause
          /\ btnLabel' = "Play"
          /\ pageIsPlaying' = ~pageIsPlaying
          /\ UNCHANGED << backendVars, spec, constructed, canvas, entities, bodies, world, contacts, handlers, keys,
                          lastTime, now, pending, pc, caller, dtMs, ev >>
     ELSE /\ pending < MaxPending
          /\ Start

\* a reset() that also stops the loop
PlayingAfterResetStopped(playing) == FALSE

\* reset() does not assign this.isPlaying
PlayingAfterReset(playing) == playing

\* reset() { this.loadEntities(); } and the subscriptions loadEntities adds
Reset ==
  LET rt == LoadEntities(spec, [entities |-> entities, bodies |-> bodies, world |-> world]) IN
  /\ entities' = rt.entities
  /\ bodies' = rt.bodies
  /\ world' = rt.world
  /\ handlers' = IF rt.threw THEN handlers ELSE handlers + 1
  /\ isPlaying' = PlayingAfterReset(isPlaying)

\* reset-btn click listener:  runtime.reset(); if (!isPlaying) runtime.render();
ResetBtnClick ==
  /\ pc = "idle"
  /\ PageBound
  /\ handlers < MaxLoads
  /\ Reset
  /\ canvas' = IF pageIsPlaying \/ handlers' = handlers THEN canvas ELSE Draw(entities')
  /\ UNCHANGED << backendVars, spec, constructed, contacts, keys, lastTime, now, pending,
                  pageIsPlaying, btnLabel, pc, caller, dtMs, ev >>

\* a loop() without its guard
LoopRunsAlways(playing) == TRUE

\* if (!this.isPlaying) return;
LoopRuns(playing) == playing

\* the requestAnimationFrame callback: () => this.loop()
FrameCallback ==
  /\ pc = "idle"
  /\ pending > 0
  /\ pending' = pending - 1
  /\ IF LoopRuns(isPlaying)
     THEN /\ EnterLoop("frame", lastTime)
          /\ UNCHANGED << backendVars, spec, constructed, canvas, bodies, contacts, handlers, isPlaying, keys, now,
                          pageIsPlaying, btnLabel >>
     ELSE UNCHANGED << backendVars, spec, constructed, canvas, entities, bodies, world, contacts, handlers, isPlaying, keys,
                       lastTime, now, pageIsPlaying, btnLabel, pc, caller, dtMs, ev >>

(***************************************************************************)
(* Inside Matter.Engine.update: the collision events of the step.          *)
(***************************************************************************)
\* Events.trigger(engine, 'collisionStart', { pairs }), if there are pairs
CollisionStart ==
  /\ pc = "update"
  /\ \E pairs \in PairLists(PairsOf(world)) :
       /\ entities' = IF pairs = << >> THEN entities
                      ELSE Trigger(handlers, entities, pairs, TRUE)
       /\ contacts' = contacts \cup PairSet(pairs)
       /\ ev' = pairs
  /\ pc' = "started"
  /\ UNCHANGED << backendVars, spec, constructed, canvas, bodies, world, handlers, isPlaying, keys, lastTime, now,
                  pending, pageIsPlaying, btnLabel, caller, dtMs >>

\* the ordered pairs of the contacts that are active
ActivePairs == { p \in PairsOf(world) : {p[1], p[2]} \in contacts }

\* Events.trigger(engine, 'collisionEnd', { pairs }), if there are pairs
CollisionEnd ==
  /\ pc = "started"
  /\ \E pairs \in PairLists(ActivePairs) :
       /\ entities' = IF pairs = << >> THEN entities
                      ELSE Trigger(handlers, entities, pairs, FALSE)
       /\ contacts' = contacts \ PairSet(pairs)
       /\ ev' = pairs
  /\ pc' = "ended"
  /\ UNCHANGED << backendVars, spec, constructed, canvas, bodies, world, handlers, isPlaying, keys, lastTime, now,
                  pending, pageIsPlaying, btnLabel, caller, dtMs >>

(***************************************************************************)
(* The rest of update and loop: the engine has moved the bodies; copy them *)
(* into the entities, render, request the next frame, return to the caller.*)
(***************************************************************************)
FinishLoop ==
  /\ pc = "ended"
  /\ \E o \in EngineOutcomes :
       /\ world' = EngineWorld(world, o)
       /\ entities' = SyncEntities(entities, bodies, world')
  /\ canvas' = Draw(entities')
  /\ pending' = pending + 1
  /\ IF caller = "start"
     THEN btnLabel' = "Pause" /\ pageIsPlaying' = ~pageIsPlaying
     ELSE UNCHANGED << btnLabel, pageIsPlaying >>
  /\ pc' = "idle"
  /\ caller' = "none"
  /\ dtMs' = 0
  /\ ev' = << >>
  /\ UNCHANGED << backendVars, spec, constructed, bodies, contacts, handlers, isPlaying, keys, lastTime, now >>

\* Matter.Engine.update throws: the exception leaves update, loop and, in a
\* step run by start(), the click listener; nothing after the call runs
EngineThrows ==
  /\ pc = "update"
  /\ pc' = "idle"
  /\ caller' = "none"
  /\ dtMs' = 0
  /\ ev' = << >>
  /\ UNCHANGED << backendVars, spec, constructed, canvas, entities, bodies, world, contacts, handlers,
                  isPlaying, keys, lastTime, now, pending, pageIsPlaying, btnLabel >>

Next ==
  \/ Tick
  \/ KeyDown
  \/ KeyUp
  \/ PlayBtnClick
  \/ ResetBtnClick
  \/ FrameCallback
  \/ CollisionStart
  \/ CollisionEnd
  \/ FinishLoop
  \/ EngineThrows

Spec == Init /\ [][Next]_vars

(***************************************************************************)
(* The desktop application.  No exported page is open: the page's          *)
(* variables stay at the values below.                                     *)
(***************************************************************************)
PageClosed ==
  /\ spec = Scene(0, << >>)
  /\ entities = << >> /\ bodies = EmptyMap /\ world = << >> /\ contacts = {}
  /\ handlers = 0 /\ isPlaying = FALSE /\ keys = {} /\ lastTime = 0 /\ now = 0
  /\ pending = 0 /\ pageIsPlaying = FALSE /\ btnLabel = "Play" /\ pc = "idle"
  /\ caller = "none" /\ dtMs = 0 /\ ev = << >> /\ constructed = FALSE /\ canvas = << >>

(***************************************************************************)
(* commands.rs: create_directory, write_binary_file and delete_path on a   *)
(* file system whose paths are sequences of at most MaxDepth names.        *)
(***************************************************************************)
Names == {"a", "b"}

Paths == SeqsUpTo(Names, MaxDepth) \ { << >> }

\* PathBuf::parent
Parent(p) == SubSeq(p, 1, Len(p) - 1)

\* the path and its ancestors
Prefixes(p) == { SubSeq(p, 1, k) : k \in 1..Len(p) }

\* q is an entry below the directory p
IsUnder(q, p) == Len(q) > Len(p) /\ SubSeq(q, 1, Len(p)) = p

\* fs::create_dir_all(p): fails when a component of p is a file, creates the
\* missing directories of p otherwise
CreateDirAll(f, p) ==
  IF \E q \in Prefixes(p) : q \in DOMAIN f /\ f[q] = "file"
  THEN [ok |-> FALSE, fs |-> f]
  ELSE [ok |-> TRUE,
        fs |-> [q \in (DOMAIN f) \cup Prefixes(p) |-> IF q \in DOMAIN f THEN f[q] ELSE "dir"]]

\* fs::remove_dir_all(p): the directory and everything below it
RemoveDirAll(f, p) == [q \in { r \in DOMAIN f : r # p /\ ~IsUnder(r, p) } |-> f[q]]

\* fs::remove_file(p)
RemoveFile(f, p) == [q \in (DOMAIN f) \ {p} |-> f[q]]

FsReturn(cmd, p, ok) == fsResult' = [cmd |-> cmd, path |-> p, ok |-> ok]

\* create_directory(path)
CreateDirectory ==
  /\ \E p \in Paths :
       LET r == CreateDirAll(fs, p) IN
       /\ fs' = r.fs
       /\ FsReturn("create_directory", p, r.ok)
  /\ UNCHANGED << pageVars, watcherVars, aiVars >>

\* write_binary_file(path, data)
WriteBinaryFile ==
  /\ \E p \in Paths :
       LET r == CreateDirAll(fs, Parent(p)) IN
       IF ~r.ok
       THEN fs' = fs /\ FsReturn("write_binary_file", p, FALSE)
       ELSE IF p \in DOMAIN r.fs /\ r.fs[p] = "dir"
            THEN fs' = r.fs /\ FsReturn("write_binary_file", p, FALSE)
            ELSE /\ fs' = [q \in (DOMAIN r.fs) \cup {p} |-> IF q = p THEN "file" ELSE r.fs[q]]
                 /\ FsReturn("write_binary_file", p, TRUE)
  /\ UNCHANGED << pageVars, watcherVars, aiVars >>

\* delete_path(path)
DeletePath ==
  /\ \E p \in Paths :
       IF p \notin DOMAIN fs
       THEN fs' = fs /\ FsReturn("delete_path", p, FALSE)
       ELSE /\ fs' = IF fs[p] = "dir" THEN RemoveDirAll(fs, p) ELSE RemoveFile(fs, p)
            /\ FsReturn("delete_path", p, TRUE)
  /\ UNCHANGED << pageVars, watcherVars, aiVars >>

FsNext ==
  \/ CreateDirectory
  \/ WriteBinaryFile
  \/ DeletePath

FsSpecInit == PageClosed /\ FsInit /\ WatcherInit /\ AiQuiet

FsSpec == FsSpecInit /\ [][FsNext]_vars

(***************************************************************************)
(* watcher_commands.rs and file_watcher.rs.  A watcher is its notify       *)
(* backend, which calls the closure that owns the channel's sender, and    *)
(* the thread that receives from the channel.  Dropping the watcher asks   *)
(* the backend to shut down; the closure and its sender are gone once it   *)
(* has.                                                                    *)
(***************************************************************************)
WatchedDirs == {"project", "assets"}

Ids == 1..MaxWatchers

\* start_watching returned Ok: the backend runs, the thread is spawned
NewInstance == [backend |-> "running", queue |-> 0, thread |-> "running"]

\* stop_watching(&mut watcher): if let Some(w) = watcher.take() { drop(w) }
StopWatching(insts, w) ==
  IF w = None THEN insts ELSE [insts EXCEPT ![w[1]].backend = "dropped"]

\* start_file_watcher(app_handle, path, state); start_watching returns Err
\* when RecommendedWatcher::new or watcher.watch fails, and the ? returns it
StartFileWatcher ==
  /\ \E path \in WatchedDirs, started \in BOOLEAN :
       LET stopped == StopWatching(instances, watcher) IN
       IF started
       THEN /\ Len(instances) < MaxWatchers
            /\ instances' = Append(stopped, NewInstance)
            /\ emitted' = Append(emitted, FALSE)
            /\ watcher' = Some(Len(instances) + 1)
            /\ watchedPath' = Some(path)
       ELSE /\ instances' = stopped
            /\ watcher' = None
            /\ UNCHANGED << watchedPath, emitted >>
  /\ UNCHANGED << pageVars, fsVars, aiVars >>

\* stop_file_watcher(state)
StopFileWatcher ==
  /\ instances' = StopWatching(instances, watcher)
  /\ watcher' = None
  /\ watchedPath' = None
  /\ UNCHANGED << emitted, pageVars, fsVars, aiVars >>

\* the backend calls the closure: let _ = tx.send(event).  A backend that
\* was asked to shut down may still deliver until it has shut down.
FsEventOf(id) ==
  /\ id <= Len(instances)
  /\ instances[id].backend \in {"running", "dropped"}
  /\ instances[id].queue < MaxQueue
  /\ instances' = [instances EXCEPT ![id].queue = @ + 1]
  /\ UNCHANGED << watcher, watchedPath, emitted, pageVars, fsVars, aiVars >>

FsEvent == \E id \in Ids : FsEventOf(id)

\* a backend whose shutdown leaves a sender of the channel alive
ShutDownKeepsSender(inst) == inst

\* the backend has shut down and dropped the closure with its sender
ShutDown(inst) == [inst EXCEPT !.backend = "closed"]

BackendShutdownOf(id) ==
  /\ id <= Len(instances)
  /\ instances[id].backend = "dropped"
  /\ instances' = [instances EXCEPT ![id] = ShutDown(@)]
  /\ UNCHANGED << watcher, watchedPath, emitted, pageVars, fsVars, aiVars >>

BackendShutdown == \E id \in Ids : BackendShutdownOf(id)

\* while let Ok(event) = rx.recv() { ... }: one event is received; it is
\* emitted as 'file-changed' unless one of the filters skips it
ThreadRecvOf(id) ==
  /\ id <= Len(instances)
  /\ instances[id].thread = "running"
  /\ instances[id].queue > 0
  /\ instances' = [instances EXCEPT ![id].queue = @ - 1]
  /\ \E emit \in BOOLEAN : emitted' = [emitted EXCEPT ![id] = IF emit THEN ~@ ELSE @]
  /\ UNCHANGED << watcher, watchedPath, pageVars, fsVars, aiVars >>

ThreadRecv == \E id \in Ids : ThreadRecvOf(id)

\* rx.recv() returns Err: the channel is empty and has no sender left
ThreadExitOf(id) ==
  /\ id <= Len(instances)
  /\ instances[id].thread = "running"
  /\ instances[id].queue = 0
  /\ instances[id].backend = "closed"
  /\ instances' = [instances EXCEPT ![id].thread = "done"]
  /\ UNCHANGED << watcher, watchedPath, emitted, pageVars, fsVars, aiVars >>

ThreadExit == \E id \in Ids : ThreadExitOf(id)

WatcherNext ==
  \/ StartFileWatcher
  \/ StopFileWatcher
  \/ FsEvent
  \/ BackendShutdown
  \/ ThreadRecv
  \/ ThreadExit

WatcherSpecInit == PageClosed /\ FsInit /\ WatcherInit /\ AiQuiet

WatcherSpec == WatcherSpecInit /\ [][WatcherNext]_vars

\* the backend and the thread of every watcher are scheduled
WatcherLive ==
  /\ WatcherSpecInit
  /\ [][WatcherNext]_vars
  /\ \A id \in Ids :
       /\ WF_vars(BackendShutdownOf(id))
       /\ WF_vars(ThreadRecvOf(id))
       /\ WF_vars(ThreadExitOf(id))

(***************************************************************************)
(* ai_client.rs.  Strings that are joined are sequences of characters; the *)
(* HTTP exchange is the choice of the network and of the API.              *)
(***************************************************************************)
ApiKeys == {"key-1", "key-2"}

\* the ContentBlocks of an AnthropicResponse
Blocks ==
  { [type |-> "text", text |-> Some(<< "h", "i" >>)],
    [type |-> "text", text |-> Some(<< "o", "k" >>)],
    [type |-> "text", text |-> None],
    [type |-> "tool_use", text |-> Some(<< "x" >>)] }

\* what the request can end in: send() fails, the status is no success, the
\* body does not parse, or the body is an AnthropicResponse
HttpOutcomes ==
  { [kind |-> k, content |-> << >>] : k \in {"send_error", "api_error", "bad_body"} }
    \cup { [kind |-> "ok", content |-> c] : c \in SeqsUpTo(Blocks, MaxBlocks) }

\* filter_map(text of the text blocks).collect().join("")
RECURSIVE JoinText(_, _)
JoinText(blocks, i) ==
  IF i > Len(blocks) THEN << >>
  ELSE (IF blocks[i].type = "text" /\ blocks[i].text # None THEN blocks[i].text[1] ELSE << >>)
         \o JoinText(blocks, i + 1)

\* AIClient::send_message once the key is there, on the outcome http
SendMessage(http) ==
  CASE http.kind = "send_error" -> [ok |-> FALSE, value |-> "Request failed"]
    [] http.kind = "api_error"  -> [ok |-> FALSE, value |-> "API error"]
    [] http.kind = "bad_body"   -> [ok |-> FALSE, value |-> "Failed to parse response"]
    [] OTHER                    -> [ok |-> TRUE, value |-> JoinText(http.content, 1)]

\* Ok(content) => AIResponse { content, success: true, error: None }
OkResponse(content) == [content |-> content, success |-> TRUE, error |-> None]

\* an error arm that passes the message on as content as well
ErrResponseWithContent(e) == [content |-> << "e" >>, success |-> FALSE, error |-> Some(e)]

\* AIResponse { content: String::new(), success: false, error: Some(e) }
ErrResponse(e) == [content |-> << >>, success |-> FALSE, error |-> Some(e)]

\* the application starts: AIClient::new() reads ANTHROPIC_API_KEY
AiInit ==
  /\ apiKey \in {None, Some("env-key")}
  /\ requests = 0
  /\ aiResult = None

\* ai_set_api_key(state, api_key)
AiSetApiKey ==
  /\ \E k \in ApiKeys : apiKey' = Some(k)
  /\ UNCHANGED << requests, aiResult, pageVars, fsVars, watcherVars >>

\* ai_send_message(state, messages, game_context)
AiSendMessage ==
  /\ IF apiKey = None
     THEN /\ aiResult' = Some([tag |-> "Ok", value |-> ErrResponse("API key not configured")])
          /\ requests' = requests
     ELSE /\ requests < MaxRequests
          /\ requests' = requests + 1
          /\ \E http \in HttpOutcomes :
               LET r == SendMessage(http) IN
               aiResult' = Some([tag |-> "Ok",
                                 value |-> IF r.ok THEN OkResponse(r.value)
                                           ELSE ErrResponse(r.value)])
  /\ UNCHANGED << apiKey, pageVars, fsVars, watcherVars >>

AiNext ==
  \/ AiSetApiKey
  \/ AiSendMessage

AiSpecInit == PageClosed /\ FsInit /\ WatcherInit /\ AiInit

AiSpec == AiSpecInit /\ [][AiNext]_vars

(***************************************************************************)
(* Properties.                                                             *)
(***************************************************************************)
Idx == 1..Len(entities)

HasBody(i) == entities[i].name \in DOMAIN bodies

BodyOf(i) == world[bodies[entities[i].name]]

\* the step in which loop() applies the input, before the engine advances
InputPhase == pc = "idle" /\ pc' = "update"

\* loadEntities ran in this step
Reloaded == handlers' # handlers

\* the members of the k-th pair of the event just delivered
EvA(k) == Find(entities, ev[k][1])
EvB(k) == Find(entities, ev[k][2])

InitialEntities == LoadEntities(spec, NewRuntime).entities

\* C1: in the input phase of a step the vertical velocity of an
\* input-driven entity's body changes only if the entity is Grounded and jump
\* is down, and an entity becomes Grounded only in a contact-begin event that
\* pairs it with a ground/platform entity; so an entity that never had such a
\* contact keeps its vertical velocity however long jump is held.
C1_JumpOnlyWhenGrounded ==
  [][ /\ InputPhase =>
           \A i \in Idx :
             (entities[i].hasInput /\ HasBody(i)
                /\ world'[bodies[entities[i].name]].vy # BodyOf(i).vy)
             => (entities[i].isGrounded /\ Jump(keys))
      /\ \A i \in Idx :
           (~entities[i].isGrounded /\ entities'[i].isGrounded)
           => /\ pc = "update" /\ pc' = "started"
              /\ \E k \in 1..Len(ev') :
                   \/ ev'[k][1] = entities[i].name /\ IsSupport(entities, Find(entities, ev'[k][2]))
                   \/ ev'[k][2] = entities[i].name /\ IsSupport(entities, Find(entities, ev'[k][1]))
    ]_vars

\* an Airborne player without any contact, jump held, input applied: the body
\* is still at rest vertically
C1_Witness ==
  /\ pc = "update" /\ caller = "frame" /\ Jump(keys) /\ contacts = {}
  /\ \E i \in Idx : entities[i].hasInput /\ HasBody(i) /\ ~entities[i].isGrounded
                    /\ BodyOf(i).vy = 0

\* C2 as stated: a Grounded entity's step with jump down sets the body's
\* vertical velocity to jumpForce and isGrounded to false in that step.
C2_Original ==
  [][ InputPhase =>
        \A i \in Idx :
          (entities[i].hasInput /\ HasBody(i) /\ entities[i].isGrounded /\ Jump(keys))
          => /\ world'[bodies[entities[i].name]].vy = entities[i].jumpForce * VelScale
             /\ ~entities'[i].isGrounded
    ]_vars

\* C2 amended: the vertical velocity is set to jumpForce * 0.01, and
\* isGrounded to false, within the step and before any contact-end event.
C2_JumpSetsScaledVelocity ==
  [][ InputPhase =>
        \A i \in Idx :
          (entities[i].hasInput /\ HasBody(i) /\ entities[i].isGrounded /\ Jump(keys))
          => /\ world'[bodies[entities[i].name]].vy * 100 = entities[i].jumpForce * VelScale
             /\ ~entities'[i].isGrounded
    ]_vars

\* the jump has been applied while the contact with the support is active
C2_Witness ==
  /\ pc = "update" /\ Jump(keys)
  /\ \E i \in Idx :
       /\ entities[i].hasInput /\ HasBody(i) /\ ~entities[i].isGrounded
       /\ BodyOf(i).vy * 100 = entities[i].jumpForce * VelScale
       /\ \E j \in Idx : IsSupport(entities, j)
                         /\ {entities[i].name, entities[j].name} \in contacts

\* C3: after a contact-begin event, for every pair of the event the member
\* that is player-controlled is Grounded if the other member is tagged ground
\* or platform, whichever of the two is reported first.
C3_BeginGroundsEitherOrder ==
  pc = "started" =>
    \A k \in 1..Len(ev) :
      /\ (HasInput(entities, EvA(k)) /\ IsSupport(entities, EvB(k)))
           => entities[EvA(k)].isGrounded
      /\ (HasInput(entities, EvB(k)) /\ IsSupport(entities, EvA(k)))
           => entities[EvB(k)].isGrounded

\* a contact-begin that reported the support first and the player second
C3_Witness ==
  /\ pc = "started"
  /\ \E k \in 1..Len(ev) :
       /\ IsSupport(entities, EvA(k)) /\ ~HasInput(entities, EvA(k))
       /\ HasInput(entities, EvB(k)) /\ entities[EvB(k)].isGrounded

\* C4: after a contact-end event, a player-controlled member of a pair whose
\* other member is tagged ground or platform is Airborne, also while a contact
\* with another ground/platform entity is still active.
C4_EndClearsDespiteOtherContact ==
  pc = "ended" =>
    \A k \in 1..Len(ev) :
      /\ (HasInput(entities, EvA(k)) /\ IsSupport(entities, EvB(k)))
           => ~entities[EvA(k)].isGrounded
      /\ (HasInput(entities, EvB(k)) /\ IsSupport(entities, EvA(k)))
           => ~entities[EvB(k)].isGrounded

\* two contacts begun, one ended: the player is Airborne while the other
\* support is still in contact
C4_Witness ==
  /\ pc = "ended"
  /\ \E k \in 1..Len(ev) : \E i, j \in Idx :
       /\ entities[i].hasInput /\ entities[i].name \in {ev[k][1], ev[k][2]}
       /\ IsSupport(entities, j) /\ entities[j].name \notin {ev[k][1], ev[k][2]}
       /\ {entities[i].name, entities[j].name} \in contacts
       /\ ~entities[i].isGrounded

\* C5: isGrounded is true only for entities with hasInput = true.
C5_GroundedOnlyWithInput ==
  \A i \in Idx : entities[i].isGrounded => entities[i].hasInput

\* a contact-begin between an entity without input and a support was
\* delivered, and some entity is Grounded
C5_Witness ==
  /\ pc \in {"started", "ended"}
  /\ \E i \in Idx : entities[i].isGrounded
  /\ \E c \in contacts : \E i, j \in Idx :
       c = {entities[i].name, entities[j].name} /\ i # j /\ ~entities[i].hasInput

\* C6: pause() changes neither the world nor the entities, and a frame
\* callback that runs while the runtime is not playing performs no step and
\* changes nothing but the number of pending callbacks.
C6_PausedFramesDoNothing ==
  [][ /\ (isPlaying /\ ~isPlaying') => UNCHANGED << entities, bodies, world, contacts >>
      /\ (~isPlaying /\ pending' < pending)
           => UNCHANGED << entities, bodies, world, contacts, isPlaying, lastTime, pc, dtMs >>
    ]_vars

\* paused after steps that produced a contact, every pending callback spent
C6_Witness ==
  pc = "idle" /\ ~isPlaying /\ pending = 0 /\ contacts # {} /\ btnLabel = "Play"

\* C7 as stated: reset() leaves the runtime not running.
C7_Original == [][ Reloaded => ~isPlaying' ]_vars

\* C7 amended: reset() leaves the lifecycle flag and the pending frame
\* callbacks as they are: Loaded and Paused stay not running, and a Running
\* runtime keeps stepping after the reset without start() being called.
C7_ResetKeepsLifecycle ==
  [][ Reloaded => (isPlaying' = isPlaying /\ pending' = pending /\ pc' = pc) ]_vars

\* a frame step of a runtime that was reset while Running
C7_Witness ==
  pc = "update" /\ caller = "frame" /\ isPlaying /\ handlers > 1

\* C8: start() sets the timing anchor to the current time, and the step it
\* runs measures its elapsed time from that anchor: it is 0 however long the
\* runtime was Loaded or Paused.
C8_StartAnchorsTime ==
  [][ (~isPlaying /\ isPlaying') => (lastTime' = now /\ dtMs' = 0 /\ pc' = "update") ]_vars

\* resumed later than the clamp after the last step, with a callback of the
\* earlier run still pending
C8_Witness ==
  pc = "update" /\ caller = "start" /\ pending > 0 /\ now > MaxDtMs /\ dtMs = 0

\* C9: reset() yields the RuntimeEntity list of the initial load: the same
\* count, order, names, positions and rotations, every isGrounded false.
C9_ResetRebuildsInitialList ==
  [][ Reloaded =>
        /\ entities' = InitialEntities
        /\ Len(entities') = Len(spec.entities)
        /\ \A i \in 1..Len(entities') :
             entities'[i].name = spec.entities[i].name /\ ~entities'[i].isGrounded
    ]_vars

\* after a reset the list is the initial one although steps had run
C9_Witness ==
  /\ pc = "idle" /\ handlers > 1 /\ contacts # {} /\ lastTime > 0
  /\ entities = InitialEntities

UniqueNames(gs) ==
  \A i, j \in 1..Len(gs.entities) : gs.entities[i].name = gs.entities[j].name => i = j

\* every entity object of the GameSpec carries its components bag
WellFormed(gs) == \A i \in 1..Len(gs.entities) : gs.entities[i].components # None

\* C10: for a GameSpec of EntitySpecs with unique names the registry has an entry for a name
\* iff that EntitySpec declares a collider, and the world holds exactly the
\* registered bodies, after the load and after every reset.
C10_RegistryMatchesColliders ==
  (UniqueNames(spec) /\ WellFormed(spec)) =>
    /\ DOMAIN bodies = { spec.entities[i].name :
                           i \in { k \in 1..Len(spec.entities) :
                                     spec.entities[k].components.collider # None } }
    /\ { bodies[n] : n \in DOMAIN bodies } = 1..Len(world)
    /\ \A n \in DOMAIN bodies : world[bodies[n]].label = n

\* a reset has run in a scene with bodies, after steps had run
C10_Witness ==
  pc = "idle" /\ handlers > 1 /\ Len(world) > 1 /\ UniqueNames(spec) /\ contacts # {}

\* C11: a load that fails part-way keeps the scene that was there before it,
\* never a partially rebuilt one; before the load of construction the entity
\* list, the body registry and the world are empty.
C11_FailedLoadKeepsScene ==
  ~constructed => (entities = << >> /\ DOMAIN bodies = {} /\ world = << >>)

\* C12: when the engine fails in a step, no later step runs unless the host
\* starts the runtime again.  A step starts without start() only from a
\* pending frame callback, so none is pending when the failure leaves loop().
C12_NoStepAfterEngineFailure ==
  [][ (pc = "update" /\ pc' = "idle") => pending' = 0 ]_vars

\* the horizontal velocity the input asks for: moveRight wins over moveLeft
WantedVx(e) ==
  IF MoveRight(keys) THEN e.moveSpeed
  ELSE IF MoveLeft(keys) THEN 0 - e.moveSpeed
  ELSE 0

\* C13 as stated: after the input of a step is applied, the horizontal
\* velocity of every input-driven body is -moveSpeed, +moveSpeed or 0.
C13_Original ==
  pc = "update" =>
    \A i \in Idx :
      (entities[i].hasInput /\ HasBody(i))
      => BodyOf(i).vx = WantedVx(entities[i]) * VelScale

\* C13 amended: the horizontal velocity is -moveSpeed * 0.01 when only
\* moveLeft is down, +moveSpeed * 0.01 whenever moveRight is down, also with
\* moveLeft, and 0 when neither is down.
C13_HorizontalVelocityScaled ==
  pc = "update" =>
    \A i \in Idx :
      (entities[i].hasInput /\ HasBody(i))
      => BodyOf(i).vx * 100 = WantedVx(entities[i]) * VelScale

\* both directions are down and the body moves right
C13_Witness ==
  /\ pc = "update" /\ MoveLeft(keys) /\ MoveRight(keys)
  /\ \E i \in Idx : entities[i].hasInput /\ HasBody(i) /\ BodyOf(i).vx > 0

\* C14: the time a step advances the engine by is the time since the
\* previous step when that is below 100 ms and 100 ms otherwise; every step
\* records its time as the anchor of the next, and the value does not change
\* while the step runs.
C14_StepClamped ==
  [][ /\ InputPhase =>
           /\ lastTime' = now
           /\ dtMs' >= 0 /\ dtMs' <= 100
           /\ caller' = "frame" =>
                dtMs' = IF now - lastTime < 100 THEN now - lastTime ELSE 100
      /\ (pc # "idle" /\ pc' # "idle") => dtMs' = dtMs
    ]_vars

\* a frame came more than 100 ms after the previous step
C14_Witness ==
  pc = "update" /\ caller = "frame" /\ dtMs = 100 /\ now > 100 /\ lastTime = now

\* C15: a key event only adds a code to or removes it from the key state and
\* is never handled while a step runs, and the input of one step is applied
\* to all input-driven bodies from one view of moveLeft, moveRight and jump.
C15_OneKeyViewPerStep ==
  [][ /\ keys' # keys =>
           /\ pc = "idle" /\ pc' = "idle"
           /\ \E c \in Codes : keys' = keys \cup {c} \/ keys' = keys \ {c}
           /\ UNCHANGED << entities, bodies, world, isPlaying, pending, lastTime >>
      /\ InputPhase =>
           \E left, right, jump \in BOOLEAN :
             \A i \in Idx :
               (entities[i].hasInput /\ HasBody(i)) =>
                 LET e == entities[i]
                     b == world'[bodies[e.name]]
                     want == IF right THEN e.moveSpeed
                             ELSE IF left THEN 0 - e.moveSpeed ELSE 0
                 IN  /\ b.vx * 100 = want * VelScale
                     /\ (jump /\ e.isGrounded) => b.vy * 100 = e.jumpForce * VelScale
                     /\ ~(jump /\ e.isGrounded) => b.vy = BodyOf(i).vy
    ]_vars

\* the input of one step was applied to two input-driven bodies
C15_Witness ==
  /\ pc = "update" /\ MoveRight(keys)
  /\ \E i, j \in Idx :
       /\ i # j /\ entities[i].hasInput /\ entities[j].hasInput
       /\ HasBody(i) /\ HasBody(j)
       /\ BodyOf(i).vx > 0 /\ BodyOf(j).vx > 0

\* C16: when a step completes, every entity with a registered body has the
\* x, y and rotation of that body, and no step of the loop changes the x, y
\* or rotation of an entity without a registered body.
C16_EntitiesFollowBodies ==
  [][ /\ (pc = "ended" /\ pc' = "idle") =>
           \A i \in Idx :
             HasBody(i) =>
               LET b == world'[bodies[entities[i].name]] IN
               /\ entities'[i].x = b.x
               /\ entities'[i].y = b.y
               /\ entities'[i].rotation = b.angle
      /\ (pc # "idle" \/ pc' # "idle") =>
           \A i \in Idx :
             ~HasBody(i) =>
               /\ entities'[i].x = entities[i].x
               /\ entities'[i].y = entities[i].y
               /\ entities'[i].rotation = entities[i].rotation
    ]_vars

\* a step has completed: an entity was moved and turned with its body, next
\* to an entity without a body
C16_Witness ==
  /\ pc = "idle" /\ pending > 0
  /\ \E i, j \in Idx :
       /\ HasBody(i) /\ ~HasBody(j)
       /\ entities[i].x # InitialEntities[i].x
       /\ entities[i].rotation # InitialEntities[i].rotation
       /\ entities[i].x = BodyOf(i).x /\ entities[i].rotation = BodyOf(i).angle
       /\ entities[j].x = InitialEntities[j].x

\* the input of this step asks the body of entity i to jump
Jumps(i) ==
  entities[i].hasInput /\ HasBody(i) /\ entities[i].isGrounded /\ Jump(keys)

\* C17: applying the input leaves the vertical velocity of every body as it
\* was at the start of the step, whatever moveLeft and moveRight are, unless
\* the jump is applied to that body.
C17_HorizontalInputKeepsVy ==
  [][ InputPhase =>
        \A k \in 1..Len(world) :
          (\A i \in Idx : Jumps(i) => bodies[entities[i].name] # k)
          => world'[k].vy = world[k].vy
    ]_vars

\* a body rising from an earlier jump is steered sideways, jump released
C17_Witness ==
  /\ pc = "update" /\ ~Jump(keys) /\ (MoveLeft(keys) \/ MoveRight(keys))
  /\ \E i \in Idx : /\ entities[i].hasInput /\ HasBody(i)
                     /\ BodyOf(i).vx # 0 /\ BodyOf(i).vy # 0

\* C18: for EntitySpecs with unique names, the body of a collider-bearing
\* entity is static iff its EntitySpec declares neither velocity nor input.
C18_StaticIffNoVelocityNoInput ==
  (UniqueNames(spec) /\ WellFormed(spec)) =>
    \A i \in 1..Len(spec.entities) :
      LET es == spec.entities[i] IN
      es.components.collider # None =>
        /\ es.name \in DOMAIN bodies
        /\ world[bodies[es.name]].isStatic
             <=> (es.components.velocity = None /\ es.components.input = None)

\* after a reset the world holds a static body and the dynamic body of an
\* entity that declares input but no velocity
C18_Witness ==
  /\ pc = "idle" /\ handlers > 1
  /\ \E i, j \in Idx :
       /\ HasBody(i) /\ entities[i].hasInput /\ ~BodyOf(i).isStatic
       /\ spec.entities[i].components.velocity = None
       /\ HasBody(j) /\ BodyOf(j).isStatic

\* C19: the load of a GameSpec whose entities leave optional components or
\* fields out does not fail, and every value left out has its default: x, y
\* and rotation 0, width and height 32, colour 808080, moveSpeed 200,
\* jumpForce -400, no tags, hasInput false without an input component,
\* isGrounded false.
C19_MissingFieldsDefault ==
  WellFormed(spec) =>
    /\ constructed
    /\ Len(entities) = Len(spec.entities)
    /\ \A i \in Idx :
         LET c == spec.entities[i].components
             e == entities[i]
             loaded == InitialEntities[i]
         IN  /\ Field(c.transform, "x") = None => loaded.x = 0
             /\ Field(c.transform, "y") = None => loaded.y = 0
             /\ Field(c.transform, "rotation") = None => loaded.rotation = 0
             /\ ~loaded.isGrounded
             /\ ~HasBody(i) => (e.x = loaded.x /\ e.y = loaded.y /\ e.rotation = loaded.rotation)
             /\ Field(c.sprite, "width") = None => e.width = 32
             /\ Field(c.sprite, "height") = None => e.height = 32
             /\ Field(c.sprite, "tint") = None => e.color = << "#", "8", "0", "8", "0", "8", "0" >>
             /\ Field(c.input, "moveSpeed") = None => e.moveSpeed = 200
             /\ Field(c.input, "jumpForce") = None => e.jumpForce = 0 - 400
             /\ spec.entities[i].tags = None => e.tags = {}
             /\ c.input = None => ~e.hasInput

\* a scene with an entity without any component has been loaded again
C19_Witness ==
  /\ pc = "idle" /\ handlers > 1
  /\ \E i \in Idx :
       /\ spec.entities[i].components = NoComponents
       /\ entities[i].x = 0 /\ entities[i].width = 32 /\ entities[i].moveSpeed = 200
       /\ entities[i].color = << "#", "8", "0", "8", "0", "8", "0" >>

\* the rectangles render() draws for the entity list ents
Rectangles(ents) ==
  [i \in 1..Len(ents) |->
     [x |-> ents[i].x, y |-> ents[i].y, rotation |-> ents[i].rotation,
      width |-> ents[i].width, height |-> ents[i].height, color |-> ents[i].color]]

\* C20: what render() draws depends on the entity list only, so a render
\* of an unchanged list draws the same output again, and the reset button's
\* render leaves the key state, the lifecycle flags and the pending frames
\* as they are.
C20_RenderDependsOnEntitiesOnly ==
  [][ /\ canvas' # canvas => canvas' = Rectangles(entities')
      /\ (Reloaded /\ ~pageIsPlaying) =>
           /\ canvas' = Rectangles(entities')
           /\ (entities' = entities /\ canvas = Rectangles(entities)) => canvas' = canvas
           /\ UNCHANGED << keys, isPlaying, pageIsPlaying, pending, lastTime, contacts >>
    ]_vars

\* the reset button rendered the scene of construction a second time after
\* the clock had advanced, with no step in between
C20_Witness ==
  /\ pc = "idle" /\ handlers > 1 /\ ~pageIsPlaying /\ ~isPlaying /\ pending = 0
  /\ now > 0 /\ lastTime = 0 /\ contacts = {}
  /\ Len(canvas) > 1 /\ canvas = Rectangles(InitialEntities)

\* C22: at most one frame callback is pending at any time, so a host frame
\* runs at most one step.
C22_AtMostOnePendingFrame == pending <= 1

\* C23: an entity whose body is static keeps the x, y and rotation it was
\* loaded with, however many steps have run.
C23_StaticEntitiesKeepTransform ==
  \A i \in Idx :
    (HasBody(i) /\ BodyOf(i).isStatic) =>
      /\ entities[i].x = InitialEntities[i].x
      /\ entities[i].y = InitialEntities[i].y
      /\ entities[i].rotation = InitialEntities[i].rotation

\* C24: whenever no handler is running, the page's isPlaying flag equals the
\* runtime's, and the button reads Pause when it is true and Play when false.
C24_PageFlagMatchesRuntime ==
  pc = "idle" =>
    /\ pageIsPlaying = isPlaying
    /\ btnLabel = IF pageIsPlaying THEN "Pause" ELSE "Play"

\* C25: every value an EntitySpec gives explicitly, an explicit 0 included,
\* is the value of the RuntimeEntity; an explicit tint of 0 gives 000000.
C25_ExplicitValuesCarried ==
  WellFormed(spec) =>
    \A i \in Idx :
      LET c == spec.entities[i].components
          e == entities[i]
          loaded == InitialEntities[i]
      IN  /\ Field(c.transform, "x") # None => loaded.x = Field(c.transform, "x")[1]
          /\ Field(c.transform, "y") # None => loaded.y = Field(c.transform, "y")[1]
          /\ Field(c.transform, "rotation") # None
               => loaded.rotation = Field(c.transform, "rotation")[1]
          /\ Field(c.sprite, "width") # None => e.width = Field(c.sprite, "width")[1]
          /\ Field(c.sprite, "height") # None => e.height = Field(c.sprite, "height")[1]
          /\ Field(c.sprite, "tint") = Some(0) => e.color = << "#", "0", "0", "0", "0", "0", "0" >>
          /\ Field(c.input, "moveSpeed") # None => e.moveSpeed = Field(c.input, "moveSpeed")[1]
          /\ Field(c.input, "jumpForce") # None => e.jumpForce = Field(c.input, "jumpForce")[1]

\* C26: after the load of construction and after every reset exactly one
\* contact-begin and one contact-end handler are subscribed.
C26_OneHandlerOfEach == constructed => handlers = 1

\* the first entity named n is tagged ground or platform
TaggedSupport(n) ==
  LET j == Find(entities, n) IN
  j # 0 /\ ("ground" \in entities[j].tags \/ "platform" \in entities[j].tags)

\* the event delivered in this step pairs entity i with a tagged support
PairedWithSupport(i) ==
  \E k \in 1..Len(ev') :
    \/ ev'[k][1] = entities[i].name /\ TaggedSupport(ev'[k][2])
    \/ ev'[k][2] = entities[i].name /\ TaggedSupport(ev'[k][1])

\* C27: a contact-begin or contact-end event changes no field of an entity
\* other than isGrounded, and changes isGrounded only of a member of a pair
\* whose other member is tagged ground or platform.
C27_ContactsOnlyTouchGrounded ==
  [][ ((pc = "update" /\ pc' = "started") \/ (pc = "started" /\ pc' = "ended")) =>
        /\ Len(entities') = Len(entities)
        /\ \A i \in Idx :
             /\ entities'[i] = [entities[i] EXCEPT !.isGrounded = entities'[i].isGrounded]
             /\ entities'[i].isGrounded # entities[i].isGrounded => PairedWithSupport(i)
        /\ UNCHANGED << world, bodies >>
    ]_vars

\* a contact-begin event paired a player with an entity that is no support:
\* the player is still airborne
C27_Witness ==
  /\ pc = "started" /\ Len(ev) > 0
  /\ \E i \in Idx :
       /\ entities[i].hasInput /\ HasBody(i) /\ ~entities[i].isGrounded
       /\ \E k \in 1..Len(ev) :
            /\ ev[k][1] = entities[i].name
            /\ Find(entities, ev[k][2]) # 0
            /\ ~IsSupport(entities, Find(entities, ev[k][2]))

\* this step is a return of the file command cmd
Returned(cmd) == fsResult' # fsResult /\ fsResult'.cmd = cmd

\* C21: delete_path on a directory that has entries does not remove those
\* entries, and on a path that does not exist it returns an error and
\* changes nothing.
C21_DeleteKeepsDirectoryEntries ==
  [][ Returned("delete_path") =>
        LET p == fsResult'.path IN
        /\ \A q \in DOMAIN fs : IsUnder(q, p) => q \in DOMAIN fs'
        /\ p \notin DOMAIN fs => (~fsResult'.ok /\ fs' = fs)
    ]_vars

\* C28: watched_path is Some iff watcher is Some, after every command.
C28_PathIffWatcher == (watchedPath # None) <=> (watcher # None)

\* watcher id exists and has been stopped or replaced
Stopped(id) == id <= Len(instances) /\ instances[id].backend # "running"

\* the thread of watcher id has left its loop
Terminated(id) == id <= Len(instances) /\ instances[id].thread = "done"

\* C29: the thread of a watcher that was stopped or replaced eventually
\* terminates; every 'file-changed' it emits takes one event out of its
\* channel, and once the backend has shut down nothing is added to it.
C29_StoppedThreadTerminates ==
  /\ \A id \in Ids : [](Stopped(id) => <>Terminated(id))
  /\ [][ \A id \in 1..Len(instances) :
           /\ emitted'[id] # emitted[id] =>
                /\ instances[id].thread = "running"
                /\ instances'[id].queue = instances[id].queue - 1
           /\ instances[id].backend = "closed" => instances'[id].queue <= instances[id].queue
           /\ instances[id].thread = "done" => instances'[id].thread = "done"
       ]_vars

\* the thread of a replaced watcher has emitted an event and terminated
\* while its successor is active
C29_Witness ==
  /\ Len(instances) > 1 /\ watcher = Some(2)
  /\ instances[1].thread = "done" /\ instances[1].queue = 0 /\ emitted[1]

\* C30: ai_send_message returns Ok with an AIResponse in which success is
\* true iff error is None and in which content is empty whenever success is
\* false, and without an API key it sends no request.
C30_AlwaysAnAIResponse ==
  /\ [](aiResult # None =>
          /\ aiResult[1].tag = "Ok"
          /\ aiResult[1].value.success <=> (aiResult[1].value.error = None)
          /\ ~aiResult[1].value.success => aiResult[1].value.content = << >>)
  /\ [][ apiKey = None =>
            /\ requests' = requests
            /\ aiResult' # aiResult => (aiResult' # None /\ ~aiResult'[1].value.success)
       ]_vars

\* a request was sent and failed: the response carries the error and no
\* content
C30_Witness ==
  /\ requests > 0 /\ aiResult # None
  /\ ~aiResult[1].value.success
  /\ aiResult[1].value.error = Some("API error")
  /\ aiResult[1].value.content = << >>

====
